---------------------------- MODULE Spec2Model ----------------------------
(***************************************************************************)
(* The signalling Broker of hookup (src/src/peer/Broker.js) as a state     *)
(* machine.  One action per callback the Broker installs on its            *)
(* collaborators: the relay socket (onopen, onclose, onerror, onmessage),  *)
(* the peer-connection capabilities it creates (their 'signal', 'connect'  *)
(* and 'error' events) and its own methods (initiateConnection, close).    *)
(* JavaScript runs each callback to completion, and the promise reactions  *)
(* a callback schedules run before the next callback: an action is one     *)
(* callback together with the reactions it triggers.                       *)
(*                                                                         *)
(* requestify (../shared/requestify) and Connection (./Connection) are not *)
(* among the sources; the request/response channel is modelled from the    *)
(* specification's "Transacted Channel" and a Connection is the triple the *)
(* Broker constructs it from.                                              *)
(***************************************************************************)
EXTENDS Integers, Sequences, FiniteSets, TLC

\* ------------------------------------------------------------- bounds
\* The inputs of one run, counted together: the calls of
\* initiateConnection, the offers an initiator capability emits after its first, the
\* first 'error' and the first 'connect' of each capability, the requests of the remote
\* side and the open, close and error callbacks of the socket.
MaxWork == 2

\* ------------------------------------------------------------- inputs
PeerIds == {"peer1", "peer2"}
\* errors carried by a socket or capability 'error' event
Errs == {"e1", "e2"}
\* the discriminant of a capability's signal data
SignalTypes == {"offer", "answer", "candidate"}
\* the type of an inbound request
MessageTypes == {"connect", "ping"}
\* the error a failing peer.signal(data) throws
SignalThrown == "signal failed"
\* the error of a connect request the remote side rejects
RemoteRejected == "rejected by remote"

VARIABLES
    functions,        \* this.functions: the registered request types
    connecting,       \* the constructor's flag guarding this.ready
    ready,            \* this.ready
    emitted,          \* the events emitted by the Broker, in order
    closeCalled,      \* socket.close() has been called
    peers,            \* the capabilities created, with their closures
    connections,      \* the Connection objects constructed
    requests,         \* the connect requests made on this.connection
    responded,        \* the requests the remote side has responded to
    sent,             \* the envelopes handed to socket.send
    inbox,            \* the envelopes the relay has for socket.onmessage
    nInbound,         \* the requests the remote side has sent
    calls             \* history: the callbacks the socket has delivered

vars == <<functions, connecting, ready, emitted, closeCalled, peers,
          connections, requests, responded, sent, inbox, nInbound, calls>>

\* ------------------------------------------------------------- promises
\* A promise is a settlement cell: resolve and reject act on a pending
\* promise only.
Pending == [st |-> "pending"]
ResolvedVoid == [st |-> "resolved"]
Resolved(v) == [st |-> "resolved", val |-> v]
ResolvedPeer(p) == [st |-> "resolved", peer |-> p]
Rejected(e) == [st |-> "rejected", err |-> e]
NoPromise == [st |-> "none"]

Settle(promise, outcome) ==
    IF promise.st = "pending" THEN outcome ELSE promise

\* history: the first event of a kind delivered to a handler
NoEvent == [ev |-> "none"]
First(first, event) == IF first.ev = "none" THEN event ELSE first

\* ------------------------------------------------------------- events
OpenEvent == [event |-> "open"]
CloseEvent == [event |-> "close"]
ErrorEvent(err) == [event |-> "error", err |-> err]
ConnectionEvent(c) == [event |-> "connection", connection |-> c]

\* new Connection(id, peer, ready): ready is the ready promise of peer
Connection(id, p) == [id |-> id, peer |-> p]

\* the session description a capability produces is a blob of its own
SignalData(p, type) == [type |-> type, sdp |-> p]

UnknownMessageType(type) == "Unknown message type \"" \o type \o "\""

\* the capabilities that have emitted 'error', and 'connect'
Errored == {p \in 1 .. Len(peers) : ~peers[p].errorOnce}
Connected == {p \in 1 .. Len(peers) : ~peers[p].connectOnce}

\* the offers an initiator capability has emitted after its first
MoreOffers ==
    Len(requests)
      - Cardinality({requests[id].peer : id \in 1 .. Len(requests)})

\* the inputs counted by MaxWork that the run has had
Work ==
    Len(SelectSeq(peers, LAMBDA peer : peer.initiator)) + MoreOffers
      + nInbound + Len(calls)
      + Cardinality(Errored) + Cardinality(Connected)

Init ==
    /\ functions = {"connect"}
    /\ connecting = TRUE
    /\ ready = Pending
    /\ emitted = <<>>
    /\ closeCalled = FALSE
    /\ peers = <<>>
    /\ connections = <<>>
    /\ requests = <<>>
    /\ responded = {}
    /\ sent = {}
    /\ inbox = {}
    /\ nInbound = 0
    /\ calls = <<>>

\* ------------------------------------------------------------- relay socket
onopenEmitsOnce ==
    /\ Work < MaxWork
    /\ IF connecting
         THEN /\ connecting' = FALSE
              /\ ready' = Settle(ready, ResolvedVoid)
              /\ emitted' = Append(emitted, OpenEvent)
         ELSE UNCHANGED <<connecting, ready, emitted>>
    /\ calls' = Append(calls, [ev |-> "open"])
    /\ UNCHANGED <<functions, closeCalled, peers, connections, requests,
                   responded, sent, inbox, nInbound>>

onopen ==
    /\ Work < MaxWork
    /\ emitted' = Append(emitted, OpenEvent)
    /\ IF connecting
         THEN /\ connecting' = FALSE
              /\ ready' = Settle(ready, ResolvedVoid)
         ELSE UNCHANGED <<connecting, ready>>
    /\ calls' = Append(calls, [ev |-> "open"])
    /\ UNCHANGED <<functions, closeCalled, peers, connections, requests,
                   responded, sent, inbox, nInbound>>

oncloseRejects ==
    /\ Work < MaxWork
    /\ emitted' = Append(emitted, CloseEvent)
    /\ IF connecting
         THEN /\ connecting' = FALSE
              /\ ready' = Settle(ready, Rejected("closed"))
         ELSE UNCHANGED <<connecting, ready>>
    /\ calls' = Append(calls, [ev |-> "close"])
    /\ UNCHANGED <<functions, closeCalled, peers, connections, requests,
                   responded, sent, inbox, nInbound>>

oncloseFailsReady ==
    /\ Work < MaxWork
    /\ emitted' = Append(emitted, CloseEvent)
    /\ calls' = Append(calls, [ev |-> "close"])
    /\ peers' = [p \in 1 .. Len(peers) |->
                   IF peers[p].initiator /\ peers[p].connecting
                     THEN [peers[p] EXCEPT
                             !.connecting = FALSE,
                             !.ready = Settle(@, Rejected("closed"))]
                     ELSE peers[p]]
    /\ UNCHANGED <<functions, connecting, ready, closeCalled, connections,
                   requests, responded, sent, inbox, nInbound>>

onclose ==
    /\ Work < MaxWork
    /\ emitted' = Append(emitted, CloseEvent)
    /\ calls' = Append(calls, [ev |-> "close"])
    /\ UNCHANGED <<functions, connecting, ready, closeCalled, peers,
                   connections, requests, responded, sent, inbox, nInbound>>

onerrorEmitsAlways(err) ==
    /\ Work < MaxWork
    /\ emitted' = Append(emitted, ErrorEvent(err))
    /\ IF connecting
         THEN /\ connecting' = FALSE
              /\ ready' = Settle(ready, Rejected(err))
         ELSE UNCHANGED <<connecting, ready>>
    /\ calls' = Append(calls, [ev |-> "error", err |-> err])
    /\ UNCHANGED <<functions, closeCalled, peers, connections, requests,
                   responded, sent, inbox, nInbound>>

onerror(err) ==
    /\ Work < MaxWork
    /\ IF connecting
         THEN /\ connecting' = FALSE
              /\ ready' = Settle(ready, Rejected(err))
              /\ UNCHANGED emitted
         ELSE /\ emitted' = Append(emitted, ErrorEvent(err))
              /\ UNCHANGED <<connecting, ready>>
    /\ calls' = Append(calls, [ev |-> "error", err |-> err])
    /\ UNCHANGED <<functions, closeCalled, peers, connections, requests,
                   responded, sent, inbox, nInbound>>

closeFailsConnections ==
    /\ closeCalled' = TRUE
    /\ peers' = [p \in 1 .. Len(peers) |->
                   [peers[p] EXCEPT !.ready = Settle(@, Rejected("closed"))]]
    /\ UNCHANGED <<functions, connecting, ready, emitted, connections,
                   requests, responded, sent, inbox, nInbound, calls>>

close ==
    /\ closeCalled' = TRUE
    /\ UNCHANGED <<functions, connecting, ready, emitted, peers,
                   connections, requests, responded, sent, inbox, nInbound,
                   calls>>

\* ------------------------------------------------------------- capabilities
\* A capability with the closures the Broker attaches to it.  errorOnce and
\* connectOnce: the peer.once listeners are still registered.  first and
\* firstResult are history: the first event that bears on ready, and on
\* result.
NewInitiator(from, to) ==
    [initiator |-> TRUE, from |-> from, to |-> to, connecting |-> TRUE,
     done |-> FALSE, ready |-> Pending, result |-> NoPromise,
     errorOnce |-> TRUE, connectOnce |-> TRUE, fed |-> <<>>, request |-> 0,
     first |-> NoEvent, firstResult |-> NoEvent]

NewResponder(message, id) ==
    [initiator |-> FALSE, from |-> message.from, to |-> message.to,
     connecting |-> TRUE, done |-> FALSE, ready |-> Pending,
     result |-> Pending, errorOnce |-> TRUE, connectOnce |-> TRUE,
     fed |-> <<>>, request |-> id,
     first |-> NoEvent, firstResult |-> NoEvent]

\* initiateConnection: peer.once('error', ...)
InitiatorOnError(peer, err) ==
    LET seen == [peer EXCEPT !.first = First(@, [ev |-> "error", err |-> err])]
    IN  IF ~peer.errorOnce THEN seen
        ELSE IF peer.connecting
               THEN [seen EXCEPT !.errorOnce = FALSE, !.connecting = FALSE,
                                 !.ready = Settle(@, Rejected(err))]
               ELSE [seen EXCEPT !.errorOnce = FALSE]

\* initiateConnection: peer.once('connect', ...)
InitiatorOnConnect(peer) ==
    LET seen == [peer EXCEPT !.first = First(@, [ev |-> "connect"])]
    IN  IF ~peer.connectOnce THEN seen
        ELSE IF peer.connecting
               THEN [seen EXCEPT !.connectOnce = FALSE, !.connecting = FALSE,
                                 !.ready = Settle(@, ResolvedVoid)]
               ELSE [seen EXCEPT !.connectOnce = FALSE]

InitiatorOnCatchSwallows(peer, err) == peer

\* initiateConnection: the .catch of the request chain
InitiatorOnCatch(peer, err) ==
    IF peer.connecting
      THEN [peer EXCEPT !.connecting = FALSE,
                        !.ready = Settle(@, Rejected(err))]
      ELSE peer

ResponderOnErrorOneCell(peer, err) ==
    LET seen == [peer EXCEPT
                   !.first = First(@, [ev |-> "error", err |-> err]),
                   !.firstResult = First(@, [ev |-> "error", err |-> err])]
    IN  IF seen.connecting
          THEN [seen EXCEPT !.connecting = FALSE, !.errorOnce = FALSE,
                            !.ready = Settle(@, Rejected(err)),
                            !.result = Settle(@, Rejected(err))]
          ELSE [seen EXCEPT !.errorOnce = FALSE]

\* _acceptConnection: the once('error') of ready, once('error', reject) and
\* on('error', ...), in the order they are registered
ResponderOnError(peer, err) ==
    LET seen == [peer EXCEPT
                   !.first = First(@, [ev |-> "error", err |-> err]),
                   !.firstResult = First(@, [ev |-> "error", err |-> err])]
        once == IF ~peer.errorOnce THEN seen
                ELSE [seen EXCEPT
                        !.errorOnce = FALSE,
                        !.ready = IF peer.done THEN @
                                  ELSE Settle(@, Rejected(err)),
                        !.result = Settle(@, Rejected(err))]
    IN  IF once.connecting
          THEN [once EXCEPT !.connecting = FALSE,
                            !.result = Settle(@, Rejected(err))]
          ELSE once

\* _acceptConnection: peer.once('connect', ...)
ResponderOnConnect(peer, p) ==
    LET seen == [peer EXCEPT !.first = First(@, [ev |-> "connect"])]
    IN  IF ~peer.connectOnce THEN seen
        ELSE [seen EXCEPT !.connectOnce = FALSE, !.done = TRUE,
                          !.ready = Settle(@, ResolvedPeer(p))]

ResponderOnSignalAnyType(peer, data) ==
    LET seen == [peer EXCEPT !.firstResult =
                   IF data.type = "answer"
                     THEN First(@, [ev |-> "answer", data |-> data]) ELSE @]
    IN  IF peer.connecting
          THEN [seen EXCEPT !.connecting = FALSE,
                            !.result = Settle(@, Resolved(data))]
          ELSE seen

\* _acceptConnection: peer.on('signal', ...)
ResponderOnSignal(peer, data) ==
    LET seen == [peer EXCEPT !.firstResult =
                   IF data.type = "answer"
                     THEN First(@, [ev |-> "answer", data |-> data]) ELSE @]
    IN  IF data.type = "answer" /\ peer.connecting
          THEN [seen EXCEPT !.connecting = FALSE,
                            !.result = Settle(@, Resolved(data))]
          ELSE seen

\* The channel sends a handler's result back, tagged with the request's id,
\* once it settles; what a handler throws is a failed result.
Response(id, promise) ==
    IF promise.st = "resolved"
      THEN [id |-> id, response |-> promise.val]
      ELSE [id |-> id, error |-> promise.err]

Responses(before, after) ==
    IF before.result.st = "pending" /\ after.result.st # "pending"
      THEN {Response(before.request, after.result)}
      ELSE {}

Peers == 1 .. Len(peers)
Initiators == {p \in Peers : peers[p].initiator}
Responders == {p \in Peers : ~peers[p].initiator}

\* the capability emits 'error'
PeerError(p, err) ==
    LET after == IF peers[p].initiator
                   THEN InitiatorOnError(peers[p], err)
                   ELSE ResponderOnError(peers[p], err)
    IN  /\ peers[p].errorOnce => Work < MaxWork
        /\ peers' = [peers EXCEPT ![p] = after]
        /\ sent' = sent \cup Responses(peers[p], after)
        /\ UNCHANGED <<functions, connecting, ready, emitted, closeCalled,
                       connections, requests, responded, inbox, nInbound,
                       calls>>

\* the capability emits 'connect'
PeerConnect(p) ==
    /\ peers[p].connectOnce => Work < MaxWork
    /\ peers' = [peers EXCEPT ![p] =
                   IF peers[p].initiator
                     THEN InitiatorOnConnect(peers[p])
                     ELSE ResponderOnConnect(peers[p], p)]
    /\ UNCHANGED <<functions, connecting, ready, emitted, closeCalled,
                   connections, requests, responded, sent, inbox, nInbound,
                   calls>>

\* ------------------------------------------------------------- channel
\* connection.request(message): a fresh correlation id (the place in
\* requests), a pending transaction, and the envelope handed to send.
Request(p, message) ==
    /\ requests' = Append(requests, [peer |-> p, message |-> message,
                                     result |-> Pending])
    /\ sent' = sent \cup {[id |-> Len(requests) + 1, message |-> message]}

PendingIds == {id \in 1 .. Len(requests) : requests[id].result.st = "pending"}

initiateConnectionDeduplicates(from, to) ==
    LET inFlight == {p \in Initiators :
                       /\ peers[p].from = from
                       /\ peers[p].to = to
                       /\ peers[p].ready = Pending}
    IN  /\ Work < MaxWork
        /\ IF inFlight = {}
             THEN /\ peers' = Append(peers, NewInitiator(from, to))
                  /\ connections' =
                       Append(connections, Connection(to, Len(peers) + 1))
             ELSE /\ Len(connections) < MaxWork
                  /\ connections' =
                       Append(connections,
                              Connection(to, CHOOSE p \in inFlight : TRUE))
                  /\ UNCHANGED peers
        /\ UNCHANGED <<functions, connecting, ready, emitted, closeCalled,
                       requests, responded, sent, inbox, nInbound, calls>>

\* initiateConnection(from, to)
initiateConnection(from, to) ==
    /\ Work < MaxWork
    /\ peers' = Append(peers, NewInitiator(from, to))
    /\ connections' = Append(connections, Connection(to, Len(peers) + 1))
    /\ UNCHANGED <<functions, connecting, ready, emitted, closeCalled,
                   requests, responded, sent, inbox, nInbound, calls>>

InitiatorSignalAnyType(p, type) ==
    /\ peers[p].initiator
    /\ (\E id \in 1 .. Len(requests) : requests[id].peer = p)
          => Work < MaxWork
    /\ Request(p, [type |-> "connect", from |-> peers[p].from,
                   to |-> peers[p].to, offer |-> SignalData(p, type)])
    /\ UNCHANGED <<functions, connecting, ready, emitted, closeCalled, peers,
                   connections, responded, inbox, nInbound, calls>>

\* initiateConnection: peer.on('signal', ...)
InitiatorSignal(p, type) ==
    /\ peers[p].initiator
    /\ IF type = "offer"
         THEN /\ (\E id \in 1 .. Len(requests) : requests[id].peer = p)
                   => Work < MaxWork
              /\ Request(p, [type |-> "connect", from |-> peers[p].from,
                             to |-> peers[p].to,
                             offer |-> SignalData(p, type)])
         ELSE UNCHANGED <<requests, sent>>
    /\ UNCHANGED <<functions, connecting, ready, emitted, closeCalled, peers,
                   connections, responded, inbox, nInbound, calls>>

\* _acceptConnection: peer.on('signal', ...), and the response it settles
ResponderSignal(p, type) ==
    LET after == ResponderOnSignal(peers[p], SignalData(p, type))
    IN  /\ ~peers[p].initiator
        /\ peers' = [peers EXCEPT ![p] = after]
        /\ sent' = sent \cup Responses(peers[p], after)
        /\ UNCHANGED <<functions, connecting, ready, emitted, closeCalled,
                       connections, requests, responded, inbox, nInbound,
                       calls>>

\* the capability emits 'signal'
PeerSignal(p, type) ==
    \/ InitiatorSignal(p, type)
    \/ ResponderSignal(p, type)

\* ------------------------------------------------------------- remote side
\* the remote side sends a request through the relay
RemoteRequest(type, from, to) ==
    /\ Work < MaxWork
    /\ nInbound' = nInbound + 1
    /\ inbox' = inbox \cup
         {[id |-> -(nInbound + 1),
           message |-> [type |-> type, from |-> from, to |-> to,
                        offer |-> [type |-> "offer",
                                   sdp |-> -(nInbound + 1)]]]}
    /\ UNCHANGED <<functions, connecting, ready, emitted, closeCalled, peers,
                   connections, requests, responded, sent, calls>>

\* the remote side answers a connect request it has received
RemoteAnswer(id) ==
    /\ id \in (1 .. Len(requests)) \ responded
    /\ responded' = responded \cup {id}
    /\ inbox' = inbox \cup
         {[id |-> id,
           response |-> [type |-> "answer",
                         sdp |-> requests[id].message.offer.sdp]]}
    /\ UNCHANGED <<functions, connecting, ready, emitted, closeCalled, peers,
                   connections, requests, sent, nInbound, calls>>

\* the remote side fails a connect request it has received: it rejects it,
\* or it has no handler for it
RemoteFail(id, err) ==
    /\ id \in (1 .. Len(requests)) \ responded
    /\ responded' = responded \cup {id}
    /\ inbox' = inbox \cup {[id |-> id, error |-> err]}
    /\ UNCHANGED <<functions, connecting, ready, emitted, closeCalled, peers,
                   connections, requests, sent, nInbound, calls>>

RemoteErrs == {RemoteRejected, UnknownMessageType("connect")}

\* ------------------------------------------------------------- onmessage
InitiatorOnThenDrops(peer, answer, throws) == peer

InitiatorOnThenWhileConnecting(peer, answer, throws) ==
    IF ~peer.connecting THEN peer
    ELSE LET signalled == [peer EXCEPT !.fed = Append(@, answer)]
         IN  IF throws
               THEN InitiatorOnCatch(
                      [signalled EXCEPT !.first =
                         First(@, [ev |-> "throw", err |-> SignalThrown])],
                      SignalThrown)
               ELSE signalled

\* initiateConnection: the .then of the request chain feeds the answer to
\* the capability; what peer.signal throws goes to the .catch
InitiatorOnThen(peer, answer, throws) ==
    LET signalled == [peer EXCEPT !.fed = Append(@, answer)]
    IN  IF throws
          THEN InitiatorOnCatch(
                 [signalled EXCEPT !.first =
                    First(@, [ev |-> "throw", err |-> SignalThrown])],
                 SignalThrown)
          ELSE signalled

InitiatorOnFailGeneric(peer, err) ==
    InitiatorOnCatch(
      [peer EXCEPT !.first = First(@, [ev |-> "reqfail", err |-> err])],
      "connect failed")

\* initiateConnection: the request chain when the request fails
InitiatorOnFail(peer, err) ==
    InitiatorOnCatch(
      [peer EXCEPT !.first = First(@, [ev |-> "reqfail", err |-> err])], err)

ReceiveResponseAnyPeer(env, throws) ==
    /\ env \in inbox
    /\ "message" \notin DOMAIN env
    /\ env.id \in PendingIds
    /\ LET id == env.id
           ok == "response" \in DOMAIN env
       IN  /\ throws => ok
           /\ requests' = [requests EXCEPT
                             ![id].result = IF ok THEN Resolved(env.response)
                                            ELSE Rejected(env.error)]
           /\ \E p \in Initiators :
                peers' = [peers EXCEPT ![p] =
                            IF ok THEN InitiatorOnThen(@, env.response, throws)
                            ELSE InitiatorOnFail(@, env.error)]
    /\ inbox' = inbox \ {env}
    /\ UNCHANGED <<functions, connecting, ready, emitted, closeCalled,
                   connections, responded, sent, nInbound, calls>>

\* The envelope answers a pending transaction: settle it with the payload
\* or the carried error, and run the reactions of initiateConnection.
ReceiveResponse(env, throws) ==
    /\ env \in inbox
    /\ "message" \notin DOMAIN env
    /\ env.id \in PendingIds
    /\ LET id == env.id
           p == requests[id].peer
           ok == "response" \in DOMAIN env
       IN  /\ throws => ok
           /\ requests' = [requests EXCEPT
                             ![id].result = IF ok THEN Resolved(env.response)
                                            ELSE Rejected(env.error)]
           /\ peers' = [peers EXCEPT ![p] =
                          IF ok THEN InitiatorOnThen(@, env.response, throws)
                          ELSE InitiatorOnFail(@, env.error)]
    /\ inbox' = inbox \ {env}
    /\ UNCHANGED <<functions, connecting, ready, emitted, closeCalled,
                   connections, responded, sent, nInbound, calls>>

_acceptConnectionConnected(message, id, throws) ==
    LET p == Len(peers) + 1
        peer == [NewResponder(message, id) EXCEPT
                   !.fed = <<message.offer>>, !.done = TRUE,
                   !.ready = ResolvedPeer(p)]
    IN  /\ ~throws
        /\ peers' = Append(peers, peer)
        /\ emitted' = Append(emitted,
             ConnectionEvent(Connection(message.from, p)))
        /\ connections' = Append(connections, Connection(message.from, p))
        /\ UNCHANGED sent

\* _acceptConnection(message): the responder capability with its listeners,
\* peer.signal(message.offer), which may throw out of the promise executor,
\* and then the 'connection' event.
_acceptConnection(message, id, throws) ==
    LET p == Len(peers) + 1
        peer == [NewResponder(message, id) EXCEPT !.fed = <<message.offer>>]
    IN  IF throws
          THEN /\ peers' = Append(peers,
                    [peer EXCEPT
                       !.result = Rejected(SignalThrown),
                       !.firstResult = [ev |-> "error", err |-> SignalThrown]])
               /\ sent' = sent \cup {Response(id, Rejected(SignalThrown))}
               /\ UNCHANGED <<emitted, connections>>
          ELSE /\ peers' = Append(peers, peer)
               /\ emitted' = Append(emitted,
                    ConnectionEvent(Connection(message.from, p)))
               /\ connections' = Append(connections,
                    Connection(message.from, p))
               /\ UNCHANGED sent

\* The 'request' listener of the constructor: the handler registered for
\* the message's type, or an error the channel returns to the requester.
ReceiveRequestAcceptsAll(env, throws) ==
    /\ env \in inbox
    /\ "message" \in DOMAIN env
    /\ _acceptConnection(env.message, env.id, throws)
    /\ inbox' = inbox \ {env}
    /\ UNCHANGED <<functions, connecting, ready, closeCalled, requests,
                   responded, nInbound, calls>>

ReceiveRequest(env, throws) ==
    /\ env \in inbox
    /\ "message" \in DOMAIN env
    /\ IF env.message.type \notin functions
         THEN /\ ~throws
              /\ sent' = sent \cup
                   {Response(env.id,
                             Rejected(UnknownMessageType(env.message.type)))}
              /\ UNCHANGED <<peers, emitted, connections>>
         ELSE _acceptConnection(env.message, env.id, throws)
    /\ inbox' = inbox \ {env}
    /\ UNCHANGED <<functions, connecting, ready, closeCalled, requests,
                   responded, nInbound, calls>>

\* socket.onmessage: connection.receive(event.data)
onmessage ==
    \E env \in inbox, throws \in BOOLEAN :
        \/ ReceiveResponse(env, throws)
        \/ ReceiveRequest(env, throws)

\* ------------------------------------------------------------- specification
Next ==
    \/ onopen
    \/ onclose
    \/ \E err \in Errs : onerror(err)
    \/ close
    \/ \E from \in PeerIds : \E to \in PeerIds \ {from} :
          initiateConnection(from, to)
    \/ \E p \in Peers, err \in Errs : PeerError(p, err)
    \/ \E p \in Peers : PeerConnect(p)
    \/ \E p \in Peers, type \in SignalTypes : PeerSignal(p, type)
    \/ \E type \in MessageTypes, from \in PeerIds :
          \E to \in PeerIds \ {from} : RemoteRequest(type, from, to)
    \/ \E id \in 1 .. Len(requests) : RemoteAnswer(id)
    \/ \E id \in 1 .. Len(requests), err \in RemoteErrs : RemoteFail(id, err)
    \/ onmessage

Spec == Init /\ [][Next]_vars

\* The relay delivers what it holds, and the reactions of a settled promise
\* run.
FairSpec == Spec /\ WF_vars(onmessage)
\* ------------------------------------------------------------- properties

\* the open and error callbacks delivered, in order
OpenOrError == SelectSeq(calls, LAMBDA c : c.ev \in {"open", "error"})

\* C1: this.ready is decided by the first open-or-error callback and by
\* nothing else: pending before it, resolved if it is an open, rejected
\* with the carried error if it is an error; whatever follows changes
\* nothing.
C1_ReadyDecidedByFirstCallback ==
    IF OpenOrError = <<>> THEN ready = Pending
    ELSE IF Head(OpenOrError).ev = "open" THEN ready = ResolvedVoid
    ELSE ready = Rejected(Head(OpenOrError).err)

\* an error came first, an open later, and ready is still the failure
C1_ErrorThenOpen ==
    /\ Len(OpenOrError) >= 2
    /\ OpenOrError[1].ev = "error"
    /\ OpenOrError[2].ev = "open"
    /\ ready = Rejected(OpenOrError[1].err)

\* what the first event decides for a ready promise
Decided(first) ==
    CASE first.ev = "none" -> Pending
      [] first.ev = "connect" -> ResolvedVoid
      [] OTHER -> Rejected(first.err)

C3_PendingRequestsFailOnClose ==
    [][(\/ calls' = Append(calls, [ev |-> "close"])
        \/ ~closeCalled /\ closeCalled')
         => \A id \in PendingIds :
               /\ requests'[id].result.st = "rejected"
               /\ peers'[requests[id].peer].ready.st # "pending"]_vars

AnswerInFlight(id) ==
    /\ id \in PendingIds
    /\ \E env \in inbox : env.id = id /\ "response" \in DOMAIN env

\* the answer that resolved request id has been fed to its capability
AnswerFed(id) ==
    /\ id \in 1 .. Len(requests)
    /\ requests[id].result.st = "resolved"
    /\ \E i \in 1 .. Len(peers[requests[id].peer].fed) :
          peers[requests[id].peer].fed[i] = requests[id].result.val

\* C5: an answer the remote side has given to a connect request does not
\* stay with the relay, it leaves the relay only by being fed to the
\* capability that made the offer, so it is eventually fed; and when the
\* capability's connect is the first event that bears on ready, ready is
\* resolved.
C5_HandshakeSucceeds ==
    /\ []<>(\A id \in 1 .. MaxWork : ~AnswerInFlight(id))
    /\ [][\A id \in 1 .. MaxWork :
            (AnswerInFlight(id) /\ ~AnswerInFlight(id)') => AnswerFed(id)'
         ]_vars
    /\ [](\A p \in Initiators :
            peers[p].first.ev = "connect" => peers[p].ready = ResolvedVoid)

\* offer answered, answer fed, connect with no earlier error, ready resolved
C5_Handshaken ==
    \E id \in 1 .. Len(requests) :
        /\ AnswerFed(id)
        /\ peers[requests[id].peer].first.ev = "connect"
        /\ peers[requests[id].peer].errorOnce
        /\ peers[requests[id].peer].ready = ResolvedVoid

\* C6: when a pending connect request fails, the capability is fed
\* nothing, a ready promise still pending fails with the request's error,
\* a settled one stays as it is; and a failed request stays failed, so no
\* answer is ever fed for it.
C6_RequestFailureFailsReady ==
    [][\A id \in 1 .. Len(requests) :
         /\ (requests[id].result.st = "pending"
               /\ requests'[id].result.st = "rejected") =>
              LET p == requests[id].peer
              IN  /\ peers'[p].fed = peers[p].fed
                  /\ peers'[p].ready =
                       IF peers[p].ready.st = "pending"
                         THEN Rejected(requests'[id].result.err)
                         ELSE peers[p].ready
         /\ requests[id].result.st = "rejected" =>
              requests'[id] = requests[id]
      ]_vars

\* a connect request failed, ready failed with its error, nothing was fed
C6_RequestFailed ==
    \E id \in 1 .. Len(requests) :
        /\ requests[id].result.st = "rejected"
        /\ peers[requests[id].peer].ready =
             Rejected(requests[id].result.err)
        /\ peers[requests[id].peer].fed = <<>>

\* what the first event decides for the result of _acceptConnection
DecidedResult(first) ==
    CASE first.ev = "none" -> Pending
      [] first.ev = "answer" -> Resolved(first.data)
      [] OTHER -> Rejected(first.err)

\* C7: the result of _acceptConnection is decided by the first among the
\* capability's signals of type "answer" and the capability's errors (an
\* error event, or the error peer.signal throws on the offer); signals of
\* other types, later answers and later errors change nothing.
C7_ResultDecidedByFirstAnswerOrError ==
    \A p \in Responders : peers[p].result = DecidedResult(peers[p].firstResult)

\* the answer came first, an error later, the result is still the answer
C7_AnswerThenError ==
    \E p \in Responders :
        /\ peers[p].firstResult.ev = "answer"
        /\ ~peers[p].errorOnce
        /\ peers[p].result = Resolved(peers[p].firstResult.data)

\* the connection events emitted for capability p
ConnectionEvents(p) ==
    {i \in 1 .. Len(emitted) :
        /\ emitted[i].event = "connection"
        /\ emitted[i].connection.peer = p}

\* C8: every inbound connect request handled by _acceptConnection has
\* exactly one connection event, whose Connection has the id message.from.
C8_OneConnectionEventPerRequest ==
    \A p \in Responders :
        /\ Cardinality(ConnectionEvents(p)) = 1
        /\ \A i \in ConnectionEvents(p) :
              emitted[i].connection.id = peers[p].from

\* the place in cs of the error that failed this.ready, or 0
SettlingError(cs) ==
    LET I == {i \in 1 .. Len(cs) : cs[i].ev \in {"open", "error"}}
    IN  IF I = {} THEN 0
        ELSE LET first == CHOOSE i \in I : \A j \in I : i <= j
             IN  IF cs[first].ev = "error" THEN first ELSE 0

\* the events the callbacks cs are to be surfaced as
Surfaced(cs) ==
    LET kept == SelectSeq([i \in 1 .. Len(cs) |-> i],
                          LAMBDA i : i # SettlingError(cs))
    IN  [j \in 1 .. Len(kept) |->
           IF cs[kept[j]].ev = "error" THEN ErrorEvent(cs[kept[j]].err)
           ELSE [event |-> cs[kept[j]].ev]]

\* C9: the socket's callbacks are emitted as events, in order, all but the
\* error that fails this.ready, which is not emitted; and an error callback
\* changes nothing but this.ready or the events: the transport is not
\* closed, the handlers stay registered, the capabilities and their ready
\* promises stay as they are.
C9_ErrorSurfacedOnce ==
    [][/\ SelectSeq(emitted', LAMBDA e : e.event # "connection")
            = Surfaced(calls')
       /\ (Len(calls') = Len(calls) + 1
             /\ calls'[Len(calls')].ev = "error") =>
            /\ UNCHANGED <<functions, closeCalled, peers, connections,
                           requests, sent, inbox>>
            /\ ready' # ready =>
                 /\ ready = Pending
                 /\ ready' = Rejected(calls'[Len(calls')].err)
                 /\ emitted' = emitted
      ]_vars

\* one error failed this.ready and a later one was emitted as an event
C9_ErrorAfterSettlement ==
    /\ ready.st = "rejected"
    /\ \E i \in 1 .. Len(emitted) : emitted[i].event = "error"

\* C10: a call of close marks the transport closed and changes nothing
\* else: the capabilities, the Connections and their ready promises stay
\* as they are.
C10_CloseLeavesConnections ==
    [][(~closeCalled /\ closeCalled') =>
         UNCHANGED <<functions, connecting, ready, emitted, peers,
                     connections, requests, responded, sent, inbox,
                     nInbound, calls>>]_vars

\* close was called with a Connection established
C10_ClosedWithEstablished ==
    /\ closeCalled
    /\ \E p \in Peers : peers[p].ready.st = "resolved"

\* the connect request initiator capability p makes for the offer it emits
ConnectRequest(p) ==
    [type |-> "connect", from |-> peers[p].from, to |-> peers[p].to,
     offer |-> SignalData(p, "offer")]

\* C11: the call of initiateConnection sends nothing; every connect request
\* sent is sent for an offer of an initiator capability and carries the
\* from and to of its call and that offer, so no other signal sends one;
\* and whatever has been fed to an initiator capability is the payload of a
\* successful response to a connect request of its own.
C11_InitiatorProtocolOrder ==
    [][/\ (Len(peers') = Len(peers) + 1 /\ peers'[Len(peers')].initiator)
            => UNCHANGED <<requests, sent>>
       /\ \A p \in Peers, type \in SignalTypes \ {"offer"} :
            InitiatorSignal(p, type) => UNCHANGED <<requests, sent>>
       /\ requests' # requests /\ Len(requests') # Len(requests) =>
            \E p \in Initiators :
                /\ requests' = Append(requests,
                     [peer |-> p, message |-> ConnectRequest(p),
                      result |-> Pending])
                /\ sent' = sent \cup {[id |-> Len(requests'),
                                       message |-> ConnectRequest(p)]}
       /\ \A p \in 1 .. Len(peers') :
            peers'[p].initiator =>
              \A i \in 1 .. Len(peers'[p].fed) :
                \E id \in 1 .. Len(requests') :
                    /\ requests'[id].peer = p
                    /\ requests'[id].result = Resolved(peers'[p].fed[i])
      ]_vars

\* an offer was sent as a connect request, answered, and the answer fed
C11_OfferThenRequestThenAnswer ==
    \E id \in 1 .. Len(requests) :
        LET p == requests[id].peer
        IN  /\ requests[id].message = ConnectRequest(p)
            /\ [id |-> id, message |-> ConnectRequest(p)] \in sent
            /\ requests[id].result.st = "resolved"
            /\ peers[p].fed = <<requests[id].result.val>>

\* what the first connect or error decides for the ready promise of the
\* Connection of responder capability p
DecidedResponderReady(p, first) ==
    CASE first.ev = "none" -> Pending
      [] first.ev = "connect" -> ResolvedPeer(p)
      [] OTHER -> Rejected(first.err)

\* C12: when the connection event of an inbound offer is emitted, the
\* ready promise of its Connection is pending; afterwards it is resolved
\* exactly when the capability's connect comes before any error, and
\* rejected with the error when an error comes first.
C12_EmittedConnectionIsConnecting ==
    [][/\ (emitted' # emitted /\ emitted'[Len(emitted')].event = "connection")
            => LET c == emitted'[Len(emitted')].connection
               IN  /\ c.peer \notin Peers
                   /\ ~peers'[c.peer].initiator
                   /\ peers'[c.peer].ready = Pending
       /\ \A p \in 1 .. Len(peers') :
            ~peers'[p].initiator =>
              peers'[p].ready = DecidedResponderReady(p, peers'[p].first)
      ]_vars

\* a Connection emitted for an inbound offer became ready later, on connect
C12_ConnectedAfterEvent ==
    \E p \in Responders :
        /\ ConnectionEvents(p) # {}
        /\ peers[p].first.ev = "connect"
        /\ peers[p].ready = ResolvedPeer(p)

\* C13: with several handshakes in flight and their responses delivered in
\* any order, what an initiator capability is fed is an answer to its own
\* offer; the response that settles a request touches the capability that
\* made the request and no other capability or request; and no step
\* touches two capabilities.
C13_NoCrossDelivery ==
    [][/\ \A p \in 1 .. Len(peers') :
            peers'[p].initiator =>
              \A i \in 1 .. Len(peers'[p].fed) :
                    peers'[p].fed[i] = [type |-> "answer", sdp |-> p]
       /\ \A id \in PendingIds :
            requests'[id].result.st # "pending" =>
              /\ \A q \in Peers \ {requests[id].peer} : peers'[q] = peers[q]
              /\ \A other \in (1 .. Len(requests)) \ {id} :
                    requests'[other] = requests[other]
       /\ \A p, q \in Peers :
            (peers'[p] # peers[p] /\ peers'[q] # peers[q]) => p = q
      ]_vars

\* two handshakes in flight, the later request answered first: its answer
\* fed to its own capability while the earlier request is still pending,
\* its response with the relay
C13_AnsweredOutOfOrder ==
    \E id1, id2 \in 1 .. Len(requests) :
        /\ id1 < id2
        /\ requests[id1].peer # requests[id2].peer
        /\ AnswerInFlight(id1)
        /\ peers[requests[id1].peer].fed = <<>>
        /\ AnswerFed(id2)

\* the handshakes from from to to that are in flight
InFlight(from, to) ==
    {p \in Initiators : /\ peers[p].from = from
                        /\ peers[p].to = to
                        /\ peers[p].ready = Pending}

\* C14: a handshake in flight does not keep initiateConnection from being
\* called again with the same from and to; every Connection constructed has
\* a capability created for it in the same step, so none is reused; the call
\* leaves the capabilities, Connections and requests there are as they are;
\* and an offer of a capability sends a connect request of its own and
\* leaves the other requests as they are.
C14_NoDeduplication ==
    /\ [](\A from \in PeerIds : \A to \in PeerIds \ {from} :
            (InFlight(from, to) # {} /\ Work < MaxWork)
               => ENABLED initiateConnection(from, to))
    /\ [][/\ connections' # connections =>
               /\ Len(peers') = Len(peers) + 1
               /\ Len(connections') = Len(connections) + 1
               /\ connections'[Len(connections')].peer = Len(peers')
               /\ SubSeq(peers', 1, Len(peers)) = peers
               /\ SubSeq(connections', 1, Len(connections)) = connections
          /\ (Len(peers') = Len(peers) + 1 /\ peers'[Len(peers')].initiator) =>
               /\ peers'[Len(peers')] =
                    NewInitiator(peers'[Len(peers')].from,
                                 peers'[Len(peers')].to)
               /\ connections' =
                    Append(connections,
                           Connection(peers'[Len(peers')].to, Len(peers')))
               /\ UNCHANGED <<requests, sent, inbox>>
          /\ \A p \in Initiators :
               InitiatorSignal(p, "offer") =>
                 /\ Len(requests') = Len(requests) + 1
                 /\ requests'[Len(requests')].peer = p
                 /\ SubSeq(requests', 1, Len(requests)) = requests
         ]_vars

\* two calls with the same from and to, both handshakes in flight: two
\* capabilities, two Connections, two connect requests
C14_TwoHandshakesSamePair ==
    \E p, q \in Initiators :
        /\ p # q
        /\ peers[p].from = peers[q].from
        /\ peers[p].to = peers[q].to
        /\ peers[p].ready = Pending
        /\ peers[q].ready = Pending
        /\ \E i, j \in 1 .. Len(connections) :
              connections[i].peer = p /\ connections[j].peer = q
        /\ \E id1, id2 \in PendingIds :
              requests[id1].peer = p /\ requests[id2].peer = q

\* the connect requests of capability p that have been settled
Settled(p) ==
    {id \in 1 .. Len(requests) :
        requests[id].peer = p /\ requests[id].result.st # "pending"}

\* C15: the ready promise of initiateConnection leaves pending only in the
\* step of the capability's first connect (resolved), of its first error
\* (rejected with it) or of the response that ends its request chain in
\* failure (the request's error, or the error thrown when the answer is
\* fed); and while the capability has neither connected nor failed and none
\* of its requests is settled, ready is pending.
C15_NoTimeout ==
    [][\A p \in Initiators :
         /\ (peers[p].ready = Pending /\ peers'[p].ready # Pending) =>
              \/ /\ peers[p].connectOnce /\ ~peers'[p].connectOnce
                 /\ peers'[p].ready = ResolvedVoid
              \/ /\ peers[p].errorOnce /\ ~peers'[p].errorOnce
                 /\ peers'[p].ready.st = "rejected"
              \/ \E id \in PendingIds :
                    /\ requests[id].peer = p
                    /\ \/ requests'[id].result = Rejected(peers'[p].ready.err)
                       \/ /\ requests'[id].result.st = "resolved"
                          /\ peers'[p].ready = Rejected(SignalThrown)
         /\ (peers'[p].errorOnce /\ peers'[p].connectOnce /\ Settled(p)' = {})
              => peers'[p].ready = Pending
      ]_vars

\* a stalled handshake: the offer was sent, the remote side has not
\* responded, the socket has closed and close() was called, nothing came
\* from the capability; ready is still pending
C15_StalledStaysPending ==
    \E p \in Initiators :
        /\ \E id \in PendingIds : requests[id].peer = p /\ id \notin responded
        /\ Settled(p) = {}
        /\ peers[p].errorOnce /\ peers[p].connectOnce
        /\ \E i \in 1 .. Len(calls) : calls[i].ev = "close"
        /\ closeCalled
        /\ peers[p].ready = Pending

\* the number of elements of s that satisfy Test
Count(s, Test(_)) == Len(SelectSeq(s, Test))

\* C16: every open callback of the socket emits an open event, so there
\* are as many open events as open callbacks; an open callback settles
\* this.ready only if it is pending, and leaves a settled one, failed or
\* not, as it is.
C16_OpenAlwaysEmitted ==
    [][/\ calls' = Append(calls, [ev |-> "open"]) =>
            /\ emitted' = Append(emitted, OpenEvent)
            /\ ready' = IF ready = Pending THEN ResolvedVoid ELSE ready
       /\ Count(emitted', LAMBDA e : e = OpenEvent)
            = Count(calls', LAMBDA c : c.ev = "open")
      ]_vars

\* this.ready failed on an error, a later open was emitted as an event and
\* this.ready is still the failure
C16_OpenEmittedAfterFailure ==
    /\ Len(calls) = 2
    /\ calls[1].ev = "error"
    /\ calls[2].ev = "open"
    /\ emitted = <<OpenEvent>>
    /\ ready = Rejected(calls[1].err)

\* C17: the successful response to a connect request is fed to the
\* capability that made the request whatever the state of its ready
\* promise; a settled ready stays as it is, a pending one fails with the
\* error thrown by the feeding if it throws and stays pending if not; and
\* nothing else is changed or emitted.
C17_AnswerFedWhateverReady ==
    [][\A id \in PendingIds :
         requests'[id].result.st = "resolved" =>
           LET p == requests[id].peer
           IN  /\ peers'[p].fed =
                    Append(peers[p].fed, requests'[id].result.val)
               /\ peers'[p].ready =
                    IF peers[p].ready # Pending THEN peers[p].ready
                    ELSE IF peers'[p].first.ev = "throw"
                           THEN Rejected(SignalThrown)
                           ELSE Pending
               /\ UNCHANGED <<functions, connecting, ready, emitted,
                              closeCalled, connections, sent>>
      ]_vars

\* the capability failed first and ready with it; the answer arrived later
\* and was fed all the same
C17_FedAfterError ==
    \E id \in 1 .. Len(requests) :
        LET p == requests[id].peer
        IN  /\ peers[p].first.ev = "error"
            /\ peers[p].ready = Rejected(peers[p].first.err)
            /\ requests[id].result.st = "resolved"
            /\ peers[p].fed = <<requests[id].result.val>>

\* C18: the result of _acceptConnection and the ready promise of the
\* Connection it emits are settled apart.  The capability's first error
\* fails each of the two that is still pending, and a failure response is
\* sent only if the result was; its first connect resolves a pending ready
\* and leaves the result and the responses as they are; the answer signal
\* that resolves the result sends the answer and leaves ready as it is; and
\* a response sent is never taken back.
C18_ResultAndReadyApart ==
    [][/\ sent \subseteq sent'
       /\ \A p \in Responders :
            /\ (peers[p].errorOnce /\ ~peers'[p].errorOnce) =>
                 \E err \in Errs :
                    /\ peers'[p].ready = Settle(peers[p].ready, Rejected(err))
                    /\ peers'[p].result =
                         Settle(peers[p].result, Rejected(err))
                    /\ sent' = sent \cup
                         IF peers[p].result = Pending
                           THEN {[id |-> peers[p].request, error |-> err]}
                           ELSE {}
            /\ (peers[p].connectOnce /\ ~peers'[p].connectOnce) =>
                 /\ peers'[p].ready = Settle(peers[p].ready, ResolvedPeer(p))
                 /\ peers'[p].result = peers[p].result
                 /\ sent' = sent
            /\ (peers[p].result = Pending
                  /\ peers'[p].result.st = "resolved") =>
                 /\ peers'[p].ready = peers[p].ready
                 /\ sent' = sent \cup
                      {[id |-> peers[p].request,
                        response |-> SignalData(p, "answer")]}
      ]_vars

\* the answer was sent as the response, an error came before any connect:
\* the result is still the answer, ready has failed
C18_AnswerSentThenError ==
    \E p \in Responders :
        /\ peers[p].result = Resolved(SignalData(p, "answer"))
        /\ [id |-> peers[p].request,
            response |-> SignalData(p, "answer")] \in sent
        /\ peers[p].first.ev = "error"
        /\ peers[p].ready = Rejected(peers[p].first.err)

\* C19: every inbound connect request received, whatever its from and to,
\* gets a responder capability of its own that is fed its offer, and a
\* connection event for that capability is emitted.
C19_EveryConnectAccepted ==
    [][\A env \in inbox :
         ("message" \in DOMAIN env /\ env.message.type = "connect"
            /\ env \notin inbox') =>
           /\ Len(peers') = Len(peers) + 1
           /\ SubSeq(peers', 1, Len(peers)) = peers
           /\ ~peers'[Len(peers')].initiator
           /\ peers'[Len(peers')].from = env.message.from
           /\ peers'[Len(peers')].to = env.message.to
           /\ peers'[Len(peers')].fed = <<env.message.offer>>
           /\ emitted' = Append(emitted,
                ConnectionEvent(Connection(env.message.from, Len(peers'))))
      ]_vars
=============================================================================
